---- MODULE Spec2Model ----
(***************************************************************************)
(* GazeboMavlinkInterface (src/src/gazebo_mavlink_interface.cpp): the      *)
(* bridge between the simulation and the flight-control process.           *)
(*                                                                         *)
(* Time is simulation time in milliseconds.  One OnUpdate action is one    *)
(* world-update-begin callback; the physics step that follows it advances  *)
(* the simulation time by `step`.  Datagrams wait in the socket's receive  *)
(* queue (sockq) until a tick reads them.  Values of type double are       *)
(* modelled by integers; the values of the random noise terms of the GPS   *)
(* and vision messages are left out (the distribution they are drawn from  *)
(* is kept), a fix is identified by the time it was filled.                *)
(***************************************************************************)
EXTENDS Integers, Sequences, FiniteSets, TLC

\* ------------------------------------------------------------------ bounds
\* number of control channels (the array capacity n_out_max)
n_out_max == 2
\* simulation time at which the model stops stepping the world, ms
MaxTime == 500
\* datagrams the socket's receive queue holds at most
MaxQueue == 1
\* datagrams a burst leaves pending between two ticks at most
MaxBacklog == 2
\* sensor callbacks that run inside one tick at most
MaxInside == 1

Channels == 0 .. (n_out_max - 1)

\* --------------------------------------------------------------- constants
\* gps_update_interval_ = 0.2 s, gps_delay_ = 0.12 s, ev_update_interval_ = 0.05 s
gps_update_interval_ == 200
gps_delay_ == 120
ev_update_interval_ == 50
\* the motor-speed staleness timeout, 0.2 s
ActuatorTimeout == 200

VARIABLES
  now,                      \* world_->GetSimTime()
  sockq,                    \* datagrams pending on the UDP socket _fd
  srcaddr,                  \* _srcaddr
  input_reference_,         \* per-channel target
  received_first_referenc_,
  last_actuator_time_,
  last_time_,
  last_gps_time_,
  last_ev_time_,
  hil_gps_msg_,             \* the GPS message buffer (member)
  input_offset_,
  input_scaling_,
  zero_position_disarmed_,
  zero_position_armed_,
  joints_,                  \* TRUE: a joint is bound to the channel
  joint_control_type_,
  fd_state,                 \* how Load left the socket _fd (see LoadOutcomes)
  load_log,                 \* what Load reported and which table rows it wrote
  pids_,                    \* per-channel PID: gains, limits and error state
  lat_home,                 \* the home position (file-scope statics)
  lon_home,
  lat_rad,                  \* the last projected latitude and longitude
  lon_rad,
  tick_local,               \* <<pos>> while OnUpdate stands between its
                            \* writes of lat_rad and lon_rad (with the step
                            \* that follows and the callbacks run inside
                            \* the tick so far), else <<>>
  optflow_gyro,             \* the gyro integral for the optical flow message
  last_dt_us,               \* ImuCallback's static local: <<>> until the
                            \* first call initialises it, then <<time_usec>>
  last_sample_usec,         \* history: <<t>>, the whole timestamp of the
                            \* sample last_dt_us holds the low bits of
  standard_normal_distribution_,  \* the distribution the noise is drawn from
  \* what the last handler did, in the order it did it
  order,                    \* the steps of the last handler
  sent,                     \* datagrams the last handler handed to sendto
  rx,                       \* <<d>>: the datagram the last tick read, or <<>>
  motor_speed,              \* <<m>>: the CommandMotorSpeed the last tick published
  joint_cmd,                \* what handle_control did to each channel's joint
  joint_pid,                \* the PID update handle_control made per channel
  poll_wait,                \* ms the last tick's poll waited for the peer
  tick_pos,                 \* <<pos>>: the world position the last tick read
  imu_geo,                  \* <<[lat, lon]>> the last ImuCallback reported
  noise_dist,               \* the distribution each evaluation of the GPS
                            \* or vision noise model in the last tick drew from
  gyro_dt,                  \* <<dt_us>> the last ImuCallback computed
  baro,                     \* <<[alt, draws, pressure_alt]>>: the altitude
                            \* and the rand() results the last ImuCallback
                            \* read and the pressure_alt it sent
  flow_msg                  \* <<m>>: the gyro fields of the last HIL_OPTICAL_FLOW

config == <<input_offset_, input_scaling_, zero_position_disarmed_,
            zero_position_armed_, joints_, joint_control_type_,
            fd_state, load_log, lat_home, lon_home>>
command == <<input_reference_, received_first_referenc_, last_actuator_time_>>
gates == <<last_time_, last_gps_time_, last_ev_time_, hil_gps_msg_>>
geo == <<lat_rad, lon_rad, tick_local>>
flow == <<optflow_gyro, last_dt_us, last_sample_usec,
         standard_normal_distribution_>>
observed == <<order, sent, rx, motor_speed, joint_cmd, joint_pid, poll_wait,
              tick_pos, noise_dist, imu_geo, gyro_dt, baro, flow_msg>>
vars == <<now, sockq, srcaddr, command, gates, config, pids_, geo, flow,
          observed>>

\* ------------------------------------------------------------- environment
\* the peer configured by mavlink_addr / mavlink_udp_port, and another host
ConfiguredPeer == [addr |-> "mavlink_addr", port |-> 14560]
Stranger == [addr |-> "other_host", port |-> 14557]
Senders == {ConfiguredPeer, Stranger}

\* raw control values of a HIL_ACTUATOR_CONTROLS message: two vectors that
\* differ in every channel, and in which neighbouring channels differ
ControlsA == [i \in Channels |-> (i % 3) - 1]
ControlsB == [i \in Channels |-> ((i + 1) % 3) - 1]
ControlVectors == {ControlsA, ControlsB}
\* mode bitmasks: MAV_MODE_FLAG_SAFETY_ARMED is bit 7 (128)
Modes == {1, 128, 129}

ActuatorControls(mode, controls) ==
  [msgid |-> "HIL_ACTUATOR_CONTROLS", mode |-> mode, controls |-> controls]
Heartbeat == [msgid |-> "HEARTBEAT", mode |-> 0, controls |-> ControlsA]
CommandFrames == {ActuatorControls(m, c) : m \in Modes, c \in ControlVectors}
Frames == CommandFrames \cup {Heartbeat}

\* step sizes of the world, ms
TickSteps == {100, 150}

\* the joint control types a channel is configured with
ControlTypes == <<"position_kinematic", "position_gztopic", "position",
                  "velocity", "undefined_type">>



\* ------------------------------------------------------------------ Load
\* The channel tables after Load, for two configurations: variant 0 gives
\* every channel the identity scaling, a bound joint and the default
\* control type; variant 1 gives every channel its own offset, scaling and
\* zero positions, binds a joint to the even channels only and runs through
\* the control types.
ConfigVariants == {0, 1}
LoadOffset(v) == [i \in Channels |-> IF v = 0 THEN 0 ELSE i + 1]
LoadScaling(v) == [i \in Channels |-> IF v = 0 THEN 1 ELSE i + 2]
LoadDisarmed(v) == [i \in Channels |-> IF v = 0 THEN 0 ELSE 0 - (i + 1)]
LoadArmed(v) == [i \in Channels |-> IF v = 0 THEN 0 ELSE 10 * (i + 1)]
LoadJoints(v) == [i \in Channels |-> IF v = 0 THEN TRUE ELSE i % 2 = 0]
LoadControlType(v) ==
  [i \in Channels |-> IF v = 0 THEN "velocity" ELSE ControlTypes[(i % 5) + 1]]

NoCommand == [i \in Channels |-> [op |-> "none", target |-> 0]]
NoPid ==
  [i \in Channels |->
     [op |-> "none", err |-> 0, iTerm |-> 0, force |-> 0]]

\* The plugin's SDF element.  An optional child element is <<>> when it is
\* absent and <<value>> when it is present; joint_name carries whether
\* model_->GetJoint finds the joint.  A <joint_control_pid> element is the
\* record of its seven values, a missing value being its default 0.
Channel(input_index, offset, scaling, disarmed, armed, type, joint, pid) ==
  [input_index |-> input_index, input_offset |-> offset,
   input_scaling |-> scaling, zero_position_disarmed |-> disarmed,
   zero_position_armed |-> armed, joint_control_type |-> type,
   joint_name |-> joint, joint_control_pid |-> pid]
PidElement(p, i, d, iMax, iMin, cmdMax, cmdMin) ==
  [p |-> p, i |-> i, d |-> d, iMax |-> iMax, iMin |-> iMin,
   cmdMax |-> cmdMax, cmdMin |-> cmdMin]
\* one of the joint elements left_elevon_joint .. cgo3_horizontal_arm_joint;
\* input_index is -1 when the attribute is absent
NamedJoint(element, input_index, found) ==
  [element |-> element, input_index |-> input_index, found |-> found]

\* the SDF that yields the tables of variant v
VariantSdf(v) ==
  [channels |->
     [k \in 1 .. n_out_max |->
        Channel(<<k - 1>>, LoadOffset(v)[k - 1], LoadScaling(v)[k - 1],
                LoadDisarmed(v)[k - 1], LoadArmed(v)[k - 1],
                <<LoadControlType(v)[k - 1]>>,
                IF LoadJoints(v)[k - 1] THEN <<TRUE>> ELSE <<>>,
                <<>>)],
   named |-> <<>>]

\* common::PID::Init: the gains and limits, and a cleared error state
PidInit(p, i, d, imax, imin, cmdMax, cmdMin) ==
  [pGain |-> p, iGain |-> i, dGain |-> d, iMax |-> imax, iMin |-> imin,
   cmdMax |-> cmdMax, cmdMin |-> cmdMin, pErrLast |-> 0, iErr |-> 0,
   dErr |-> 0]

\* pids_[index].Init(p, i, d, iMax, iMin, cmdMax, cmdMin)
ChannelPid(pid) ==
  PidInit(pid.p, pid.i, pid.d, pid.iMax, pid.iMin, pid.cmdMax, pid.cmdMin)

\* the tables before the SDF is parsed: joints_ and pids_ resized and
\* initialised by Load, the arrays as the class declares them
DefaultTables ==
  [offset |-> [i \in Channels |-> 0],
   scaling |-> [i \in Channels |-> 0],
   disarmed |-> [i \in Channels |-> 0],
   armed |-> [i \in Channels |-> 0],
   type |-> [i \in Channels |-> ""],
   joints |-> [i \in Channels |-> FALSE],
   pids |-> [i \in Channels |-> PidInit(0, 0, 0, 0, 0, 0, 0)],
   log |-> <<>>,
   writes |-> {},
   threw |-> FALSE]

Report(t, level, text, index) ==
  [t EXCEPT !.log = Append(@, [level |-> level, text |-> text,
                                index |-> index])]

\* index < n_out_max, the int index converted to the unsigned type of
\* n_out_max: a negative index becomes a value above every capacity
IndexBelowMax(index) == index >= 0 /\ index < n_out_max

\* the body of the branch index < n_out_max: the rows of channel `row`
WriteChannel(e, row, t) ==
  LET typed == IF e.joint_control_type # <<>>
               THEN t
               ELSE Report(t, "gzwarn", "not specified, using velocity", row)
      bound == IF e.joint_name # <<>> /\ ~e.joint_name[1]
               THEN Report(typed, "gzwarn", "joint not found", row)
               ELSE typed
  IN [bound EXCEPT
        !.offset[row] = e.input_offset,
        !.scaling[row] = e.input_scaling,
        !.disarmed[row] = e.zero_position_disarmed,
        !.armed[row] = e.zero_position_armed,
        !.type[row] = IF e.joint_control_type # <<>>
                      THEN e.joint_control_type[1] ELSE "velocity",
        !.joints[row] = IF e.joint_name # <<>> THEN e.joint_name[1] ELSE @,
        !.pids[row] = IF e.joint_control_pid # <<>>
                      THEN ChannelPid(e.joint_control_pid[1]) ELSE @,
        !.writes = @ \cup {row}]

\* a parser that folds an index beyond the tables back into them
ParseChannel_wrap(e, t) ==
  WriteChannel(e, e.input_index[1] % n_out_max, t)

\* one <channel> element that has an input_index
ParseChannel(e, t) ==
  IF IndexBelowMax(e.input_index[1])
  THEN WriteChannel(e, e.input_index[1], t)
  ELSE Report(t, "gzerr", "out of range, not parsing", e.input_index[1])

\* the <channel> elements in document order; parsing stops at the first one
\* without an input_index
RECURSIVE ParseChannels(_, _)
ParseChannels(channels, t) ==
  IF channels = <<>> THEN t
  ELSE IF Head(channels).input_index = <<>>
       THEN Report(t, "gzerr", "no input_index, not parsing", 0)
       ELSE ParseChannels(Tail(channels), ParseChannel(Head(channels), t))

\* the named joint elements: joints_.at(control_index) when the index is
\* not negative; at() throws std::out_of_range beyond the table, which ends
\* Load.  (The PIDs these elements set up are not the ones handle_control
\* uses.)
RECURSIVE ParseNamed(_, _)
ParseNamed(named, t) ==
  IF named = <<>> THEN t
  ELSE LET control_index == Head(named).input_index
       IN IF control_index >= 0
          THEN IF control_index < n_out_max
               THEN ParseNamed(Tail(named),
                      [t EXCEPT !.joints[control_index] = Head(named).found,
                                !.writes = @ \cup {control_index}])
               ELSE [t EXCEPT !.threw = TRUE]
          ELSE ParseNamed(Tail(named), t)

\* How Load ends.  The update connection and the five subscriptions are
\* made before the socket is created, so they stand when Load returns early
\* after a failed socket() or bind(); "threw" is Load left by the exception
\* of joints_.at before anything was connected.  After a failed set-up
\* fds[0] was never filled in and no datagram reaches the bridge: a tick
\* then goes on as with nothing pending, or it stays in the receive call,
\* which is a behaviour without further ticks.
LoadOutcomes == {"bound", "socket_failed", "bind_failed"}
Connected == fd_state # "threw"
\* _srcaddr before Load fills it in
UnsetAddr == [addr |-> "unset", port |-> 0]

\* Angles are in milliradians and positions in the length of one
\* milliradian of arc, so that x_rad and y_rad are the position's
\* coordinates.  degrees * M_PI / 180:
DegToRad(deg) == (deg * 3142) \div 180
\* the home position the statics start with
Home == [lat |-> DegToRad(47), lon |-> DegToRad(8)]
\* the environment: PX4_HOME_LAT and PX4_HOME_LON, <<>> when unset, in degrees
NoEnv == [lat |-> <<>>, lon |-> <<>>]
\* Load's override of the home position from the environment
LoadHome(env) ==
  /\ lat_home = IF env.lat # <<>> THEN DegToRad(env.lat[1]) ELSE Home.lat
  /\ lon_home = IF env.lon # <<>> THEN DegToRad(env.lon[1]) ELSE Home.lon

Origin == [x |-> 0, y |-> 0]
\* sqrt on the integers
ISqrt(n) == CHOOSE r \in 0 .. n : r * r <= n /\ (r + 1) * (r + 1) > n
\* the value of a double division: not a number when the divisor is 0
NaN == 0 - 9999
Quot(a, b) == IF b = 0 THEN NaN ELSE a \div b
\* the inverse great-circle formulas for small angles (sin c = c,
\* cos c = 1, asin(sin h + d cos h) = h + d); the latitude divides by c
GreatCircleLat(x_rad, c) ==
  LET q == Quot(x_rad * c, c)
  IN IF q = NaN THEN NaN ELSE lat_home + q
GreatCircleLon(y_rad, c) == lon_home + y_rad

\* a projection that applies the formulas at every position
Project_nobranch(pos) ==
  LET x_rad == pos.y
      y_rad == pos.x
      c == ISqrt(x_rad * x_rad + y_rad * y_rad)
  IN [lat |-> GreatCircleLat(x_rad, c), lon |-> GreatCircleLon(y_rad, c)]

\* the reprojection of the local position to GPS coordinates
Project(pos) ==
  LET x_rad == pos.y
      y_rad == pos.x
      c == ISqrt(x_rad * x_rad + y_rad * y_rad)
  IN IF c # 0
     THEN [lat |-> GreatCircleLat(x_rad, c), lon |-> GreatCircleLon(y_rad, c)]
     ELSE [lat |-> lat_home, lon |-> lon_home]

Zero3 == [x |-> 0, y |-> 0, z |-> 0]

\* std::normal_distribution<float>(mean, stddev), stddev in hundredths
NormalDistribution(mean, stddev) == [mean |-> mean, stddev |-> stddev]
StandardNormal == NormalDistribution(0, 100)

\* fields whose first value is set by the class declaration, not by Load
InitMembers ==
  /\ received_first_referenc_ = FALSE
  /\ last_actuator_time_ = 0
  /\ last_ev_time_ = 0
  /\ hil_gps_msg_ = [time_usec |-> 0]
  /\ lat_rad = Home.lat
  /\ lon_rad = Home.lon
  /\ tick_local = <<>>
  /\ optflow_gyro = Zero3
  /\ last_dt_us = <<>>
  /\ last_sample_usec = <<>>
  /\ standard_normal_distribution_ = StandardNormal

LoadWith(sdf, outcome) ==
  LET t == ParseNamed(sdf.named, ParseChannels(sdf.channels, DefaultTables))
  IN /\ now = 0
     /\ input_reference_ = [i \in Channels |-> 0]
     /\ input_offset_ = t.offset
     /\ input_scaling_ = t.scaling
     /\ zero_position_disarmed_ = t.disarmed
     /\ zero_position_armed_ = t.armed
     /\ joints_ = t.joints
     /\ joint_control_type_ = t.type
     /\ pids_ = t.pids
     /\ load_log = [sdf |-> sdf, log |-> t.log, writes |-> t.writes]
     /\ last_time_ = now
     /\ last_gps_time_ = now
     /\ fd_state = IF t.threw THEN "threw" ELSE outcome
     /\ srcaddr = IF ~t.threw /\ outcome = "bound"
                  THEN ConfiguredPeer ELSE UnsetAddr
     /\ sockq = <<>>

Load == \E v \in ConfigVariants : LoadWith(VariantSdf(v), "bound")

InitObserved ==
  /\ order = <<>> /\ sent = <<>> /\ rx = <<>> /\ motor_speed = <<>>
  /\ joint_cmd = NoCommand /\ joint_pid = NoPid /\ poll_wait = 0
  /\ tick_pos = <<>> /\ imu_geo = <<>> /\ gyro_dt = <<>> /\ baro = <<>> /\ flow_msg = <<>>
  /\ noise_dist = <<>>

Init == Load /\ LoadHome(NoEnv) /\ InitMembers /\ InitObserved

\* Load of one of the documents `sdfs`, ending in one of `outcomes`
InitWith(sdfs, outcomes) ==
  /\ \E sdf \in sdfs, outcome \in outcomes : LoadWith(sdf, outcome)
  /\ LoadHome(NoEnv)
  /\ InitMembers
  /\ InitObserved

\* ------------------------------------------------- send_mavlink_message
\* The datagram handed to sendto: dest_addr is a copy of _srcaddr with the
\* port overridden when destination_port is not 0, but sendto is given
\* _srcaddr itself.
send_mavlink_message(message, destination_port, src) ==
  LET dest_addr == IF destination_port # 0
                   THEN [src EXCEPT !.port = destination_port]
                   ELSE src
  IN [msg |-> message, destination_port |-> destination_port, to |-> src]

\* ------------------------------------------------------- handle_message
Armed(mode) == (mode \div 128) % 2 = 1

\* handle_message that keeps the old target of a disarmed channel
handle_message_keep(msg, cs, t) ==
  IF msg.msgid = "HIL_ACTUATOR_CONTROLS"
  THEN [ref |-> [i \in Channels |->
                   IF Armed(msg.mode)
                   THEN (msg.controls[i] + input_offset_[i]) * input_scaling_[i]
                          + zero_position_armed_[i]
                   ELSE cs.ref[i]],
        last |-> t,
        first |-> TRUE]
  ELSE cs

\* handle_message that adds the offset after the scaling
handle_message_offset(msg, cs, t) ==
  IF msg.msgid = "HIL_ACTUATOR_CONTROLS"
  THEN [ref |-> [i \in Channels |->
                   IF Armed(msg.mode)
                   THEN msg.controls[i] * input_scaling_[i] + input_offset_[i]
                          + zero_position_armed_[i]
                   ELSE zero_position_disarmed_[i]],
        last |-> t,
        first |-> TRUE]
  ELSE cs

\* handle_message that never records that a command was received
handle_message_nofirst(msg, cs, t) ==
  IF msg.msgid = "HIL_ACTUATOR_CONTROLS"
  THEN [ref |-> [i \in Channels |->
                   IF Armed(msg.mode)
                   THEN (msg.controls[i] + input_offset_[i]) * input_scaling_[i]
                          + zero_position_armed_[i]
                   ELSE zero_position_disarmed_[i]],
        last |-> t,
        first |-> cs.first]
  ELSE cs

\* handle_message that takes the time of every frame it is given
handle_message_stamp(msg, cs, t) ==
  IF msg.msgid = "HIL_ACTUATOR_CONTROLS"
  THEN [ref |-> [i \in Channels |->
                   IF Armed(msg.mode)
                   THEN (msg.controls[i] + input_offset_[i]) * input_scaling_[i]
                          + zero_position_armed_[i]
                   ELSE zero_position_disarmed_[i]],
        last |-> t,
        first |-> TRUE]
  ELSE [cs EXCEPT !.last = t]

\* cs is the command state [ref, last, first]; t the simulation time
handle_message(msg, cs, t) ==
  IF msg.msgid = "HIL_ACTUATOR_CONTROLS"
  THEN [ref |-> [i \in Channels |->
                   IF Armed(msg.mode)
                   THEN (msg.controls[i] + input_offset_[i]) * input_scaling_[i]
                          + zero_position_armed_[i]
                   ELSE zero_position_disarmed_[i]],
        last |-> t,
        first |-> TRUE]
  ELSE cs

\* a dispatch that hands the frames over last to first
RECURSIVE DecodeFrames_reversed(_, _, _)
DecodeFrames_reversed(frames, cs, t) ==
  IF frames = <<>> THEN cs
  ELSE handle_message(Head(frames),
                      DecodeFrames_reversed(Tail(frames), cs, t), t)

\* the frames of one datagram, dispatched in the order the parser completes them
RECURSIVE DecodeFrames(_, _, _)
DecodeFrames(frames, cs, t) ==
  IF frames = <<>> THEN cs
  ELSE DecodeFrames(Tail(frames), handle_message(Head(frames), cs, t), t)

\* ----------------------------------------------- pollForMAVLinkMessages
\* a poll whose recvfrom does not store the sender
pollForMAVLinkMessages_nosrc(q, src, cs, t) ==
  IF q # <<>>
  THEN [sockq |-> Tail(q),
        srcaddr |-> src,
        cs |-> DecodeFrames(Head(q).frames, cs, t),
        rx |-> <<Head(q)>>,
        steps |-> <<"poll", "recvfrom">>
                    \o [k \in 1 .. Len(Head(q).frames) |-> "handle_message"]]
  ELSE [sockq |-> q, srcaddr |-> src, cs |-> cs, rx |-> <<>>,
        steps |-> <<"poll">>]

\* poll with timeout 0; when the socket is readable one recvfrom, which
\* stores the sender in _srcaddr, then every byte goes through the parser.
pollForMAVLinkMessages(q, src, cs, t) ==
  IF q # <<>>
  THEN [sockq |-> Tail(q),
        srcaddr |-> Head(q).src,
        cs |-> DecodeFrames(Head(q).frames, cs, t),
        rx |-> <<Head(q)>>,
        steps |-> <<"poll", "recvfrom">>
                    \o [k \in 1 .. Len(Head(q).frames) |-> "handle_message"]]
  ELSE [sockq |-> q, srcaddr |-> src, cs |-> cs, rx |-> <<>>,
        steps |-> <<"poll">>]

\* ------------------------------------------------------------ common::PID
Clamp(x, lo, hi) == IF x > hi THEN hi ELSE IF x < lo THEN lo ELSE x

\* an update whose proportional term is the error itself, whatever the gain
PidUpdate_unscaled(pid, err, dt) ==
  IF dt = 0
  THEN [pid |-> pid, iTerm |-> 0, cmd |-> 0]
  ELSE LET iErr == pid.iErr + dt * err
           iTerm == Clamp(pid.iGain * iErr, pid.iMin, pid.iMax)
           kept == IF iTerm = pid.iGain * iErr THEN iErr
                   ELSE iTerm \div pid.iGain
           dErr == ((err - pid.pErrLast) * 1000) \div dt
           cmd == Clamp(0 - err - iTerm - pid.dGain * dErr,
                        pid.cmdMin, pid.cmdMax)
       IN [pid |-> [pid EXCEPT !.pErrLast = err, !.iErr = kept,
                               !.dErr = dErr],
           iTerm |-> iTerm, cmd |-> cmd]

\* pids_[i].Update(err, _dt): the integral term clamped to iMin .. iMax,
\* the command clamped to cmdMin .. cmdMax; dt in ms, a zero dt gives 0 and
\* leaves the state alone
PidUpdate(pid, err, dt) ==
  IF dt = 0
  THEN [pid |-> pid, iTerm |-> 0, cmd |-> 0]
  ELSE LET iErr == pid.iErr + dt * err
           iTerm == Clamp(pid.iGain * iErr, pid.iMin, pid.iMax)
           kept == IF iTerm = pid.iGain * iErr THEN iErr
                   ELSE iTerm \div pid.iGain
           dErr == ((err - pid.pErrLast) * 1000) \div dt
           cmd == Clamp(0 - pid.pGain * err - iTerm - pid.dGain * dErr,
                        pid.cmdMin, pid.cmdMax)
       IN [pid |-> [pid EXCEPT !.pErrLast = err, !.iErr = kept,
                               !.dErr = dErr],
           iTerm |-> iTerm, cmd |-> cmd]

\* the world a tick reads: the model's position, and how far above its
\* target each joint's velocity or angle reads
StillWorld == [pos |-> Origin, slip |-> [i \in Channels |-> 0]]
JointReading(i, target, w) == target + w.slip[i]

\* handle_control that runs every channel on the PID of channel 0
ControlPid_shared(i, target, dt, w) ==
  IF joints_[i] /\ joint_control_type_[i] \in {"velocity", "position"}
  THEN LET err == JointReading(i, target, w) - target
           u == PidUpdate(pids_[0], err, dt)
       IN [op |-> "Update", err |-> err, iTerm |-> u.iTerm,
           force |-> u.cmd, pid |-> u.pid]
  ELSE [op |-> "none", err |-> 0, iTerm |-> 0, force |-> 0,
        pid |-> pids_[i]]

\* handle_control that updates the PID of every channel with a joint
ControlPid_always(i, target, dt, w) ==
  IF joints_[i]
  THEN LET err == JointReading(i, target, w) - target
           u == PidUpdate(pids_[i], err, dt)
       IN [op |-> "Update", err |-> err, iTerm |-> u.iTerm,
           force |-> u.cmd, pid |-> u.pid]
  ELSE [op |-> "none", err |-> 0, iTerm |-> 0, force |-> 0,
        pid |-> pids_[i]]

\* the velocity and position branches of handle_control: the error, the
\* update of the channel's own PID and the force given to SetForce
ControlPid(i, target, dt, w) ==
  IF joints_[i] /\ joint_control_type_[i] \in {"velocity", "position"}
  THEN LET err == JointReading(i, target, w) - target
           u == PidUpdate(pids_[i], err, dt)
       IN [op |-> "Update", err |-> err, iTerm |-> u.iTerm,
           force |-> u.cmd, pid |-> u.pid]
  ELSE [op |-> "none", err |-> 0, iTerm |-> 0, force |-> 0,
        pid |-> pids_[i]]
\* ------------------------------------------------------- handle_control
JointCommand(i, target) ==
  IF joints_[i]
  THEN CASE joint_control_type_[i] = "velocity" ->
              [op |-> "SetForce(velocity)", target |-> target]
         [] joint_control_type_[i] = "position" ->
              [op |-> "SetForce(position)", target |-> target]
         [] joint_control_type_[i] = "position_gztopic" ->
              [op |-> "Publish", target |-> target]
         [] joint_control_type_[i] = "position_kinematic" ->
              [op |-> "SetPosition", target |-> target]
         [] OTHER -> [op |-> "gzerr", target |-> 0]
  ELSE [op |-> "none", target |-> 0]

\* handle_control that runs on the targets of before this tick's decode
handle_control_early(ref) ==
  [i \in Channels |-> JointCommand(i, input_reference_[i])]

\* handle_control that drives a joint to 0 once the command is stale
handle_control_failsafe(ref) ==
  [i \in Channels |->
     JointCommand(i, IF now - last_actuator_time_ > ActuatorTimeout
                     THEN 0 ELSE ref[i])]

\* handle_control that holds the joints at their disarmed values until the
\* first command
handle_control_disarmed(ref) ==
  [i \in Channels |->
     JointCommand(i, IF received_first_referenc_ THEN ref[i]
                     ELSE zero_position_disarmed_[i])]

handle_control(ref) ==
  [i \in Channels |-> JointCommand(i, ref[i])]

\* ------------------------------------------------------------- OnUpdate
\* a CommandMotorSpeed message that never times out
MotorSpeedMsgNoTimeout(cs, current_time) ==
  [i \in Channels |-> IF cs.last = 0 THEN 0 ELSE cs.ref[i]]

\* the CommandMotorSpeed message: one entry per channel
MotorSpeedMsg(cs, current_time) ==
  [i \in Channels |->
     IF cs.last = 0 \/ current_time - cs.last > ActuatorTimeout
     THEN 0
     ELSE cs.ref[i]]

\* a GPS send gate that opens at the interval, not after it
GpsSendDueAtInterval(current_time) ==
  current_time - last_gps_time_ >= gps_update_interval_

\* the two GPS gates
GpsFillDue(current_time) ==
  current_time - last_gps_time_ > gps_update_interval_ - gps_delay_
GpsSendDue(current_time) ==
  current_time - last_gps_time_ > gps_update_interval_
\* a vision gate that opens at the interval, not after it
EvSendDueAtInterval(current_time) ==
  current_time - last_ev_time_ >= ev_update_interval_
\* the vision gate
EvSendDue(current_time) ==
  current_time - last_ev_time_ > ev_update_interval_

Usec(t) == t * 1000

\* a readiness check that honours the timeout it is given
PollTimeout_given(_timeoutMs) == _timeoutMs

\* the timeout ::poll is called with, whatever _timeoutMs is
PollTimeout(_timeoutMs) == 0

\* ms the readiness check waits: none when a datagram is pending, else its
\* timeout
PollWait(q, _timeoutMs) == IF q # <<>> THEN 0 ELSE PollTimeout(_timeoutMs)

\* the tick's poll-and-decode step on the state the tick starts in
TickPoll ==
  pollForMAVLinkMessages(sockq, srcaddr,
    [ref |-> input_reference_, last |-> last_actuator_time_,
     first |-> received_first_referenc_], now)

\* OnUpdate up to and including the write of lat_rad
OnUpdateHead(w) ==
  LET current_time == now
      dt == current_time - last_time_
      p == TickPoll
      jc == handle_control(p.cs.ref)
      pc == [i \in Channels |-> ControlPid(i, p.cs.ref[i], dt, w)]
  IN /\ poll_wait' = PollWait(sockq, 1000)
     /\ sockq' = p.sockq
     /\ srcaddr' = p.srcaddr
     /\ input_reference_' = p.cs.ref
     /\ last_actuator_time_' = p.cs.last
     /\ received_first_referenc_' = p.cs.first
     /\ rx' = p.rx
     /\ joint_cmd' = jc
     /\ joint_pid' = [i \in Channels |->
                        [op |-> pc[i].op, err |-> pc[i].err,
                         iTerm |-> pc[i].iTerm, force |-> pc[i].force]]
     /\ pids_' = [i \in Channels |-> pc[i].pid]
     /\ motor_speed' = IF p.cs.first
                       THEN <<MotorSpeedMsg(p.cs, current_time)>>
                       ELSE <<>>
     /\ last_time_' = current_time
     /\ tick_pos' = <<w.pos>>
     /\ lat_rad' = Project(w.pos).lat
HeadSteps ==
  TickPoll.steps \o <<"handle_control">>
    \o (IF TickPoll.cs.first THEN <<"publish_motor_speed">> ELSE <<>>)

\* OnUpdate from the write of lon_rad on; current_time and pos are the
\* tick's locals, src is _srcaddr and steps what the tick has done so far
OnUpdateTail(current_time, src, pos, steps) ==
  LET fill == GpsFillDue(current_time)
      gps == IF fill THEN [time_usec |-> Usec(current_time)] ELSE hil_gps_msg_
      emit == GpsSendDue(current_time)
      ev == EvSendDue(current_time)
  IN /\ lon_rad' = Project(pos).lon
     /\ hil_gps_msg_' = gps
     /\ last_gps_time_' = IF emit THEN current_time ELSE last_gps_time_
     /\ last_ev_time_' = IF ev THEN current_time ELSE last_ev_time_
     /\ sent' =
          (IF emit
           THEN <<send_mavlink_message(
                    [type |-> "HIL_GPS", time_usec |-> gps.time_usec],
                    0, src)>>
           ELSE <<>>)
          \o
          (IF ev
           THEN <<send_mavlink_message(
                    [type |-> "VISION_POSITION_ESTIMATE",
                     time_usec |-> Usec(current_time)],
                    0, src)>>
           ELSE <<>>)
     /\ noise_dist' =
          (IF fill
           THEN <<[channel |-> "gps", dist |-> standard_normal_distribution_]>>
           ELSE <<>>)
          \o
          (IF ev
           THEN <<[channel |-> "vision",
                   dist |-> standard_normal_distribution_]>>
           ELSE <<>>)
     /\ order' = steps
                  \o (IF fill THEN <<"fill_hil_gps">> ELSE <<>>)
                  \o (IF emit THEN <<"send_hil_gps">> ELSE <<>>)
                  \o (IF ev THEN <<"send_vision">> ELSE <<>>)

\* one tick, run without another thread in between; the physics step that
\* follows advances the time by `step`
OnUpdate(step, w) ==
  /\ Connected
  /\ tick_local = <<>>
  /\ now + step <= MaxTime
  /\ OnUpdateHead(w)
  /\ OnUpdateTail(now, TickPoll.srcaddr, w.pos, HeadSteps)
  /\ now' = now + step
  /\ imu_geo' = <<>> /\ gyro_dt' = <<>> /\ baro' = <<>> /\ flow_msg' = <<>>
  /\ UNCHANGED <<config, flow, tick_local>>

\* the same tick as two steps of the world-update thread, with the
\* transport thread free to run the sensor callbacks in between
OnUpdateEnter(step, w) ==
  /\ Connected
  /\ tick_local = <<>>
  /\ now + step <= MaxTime
  /\ OnUpdateHead(w)
  /\ tick_local' = <<[pos |-> w.pos, step |-> step, inside |-> 0]>>
  /\ order' = HeadSteps
  /\ sent' = <<>> /\ imu_geo' = <<>> /\ gyro_dt' = <<>>
  /\ baro' = <<>> /\ noise_dist' = <<>> /\ flow_msg' = <<>>
  /\ UNCHANGED <<now, lon_rad, last_gps_time_, last_ev_time_, hil_gps_msg_,
                 config, flow>>
OnUpdateLeave ==
  /\ tick_local # <<>>
  /\ OnUpdateTail(last_time_, srcaddr, tick_local[1].pos, order)
  /\ tick_local' = <<>>
  /\ now' = now + tick_local[1].step
  /\ UNCHANGED <<sockq, srcaddr, command, last_time_, lat_rad, pids_, config,
                 flow, rx, motor_speed, joint_cmd, joint_pid, poll_wait,
                 tick_pos, imu_geo, gyro_dt, baro, flow_msg>>

\* ------------------------------------------------------ sensor callbacks
\* While OnUpdate is between its two steps a callback's step joins the
\* tick's record; otherwise the record is the callback's alone.
Kept(x, fresh) == IF tick_local = <<>> THEN fresh ELSE x

\* A callback sends its messages and leaves the command state, the gates
\* and the socket alone.
Callback(name, types) ==
  /\ Connected
  /\ tick_local # <<>> => tick_local[1].inside < MaxInside
  /\ tick_local' = IF tick_local = <<>> THEN <<>>
                   ELSE <<[tick_local[1] EXCEPT !.inside = @ + 1]>>
  /\ sent' = Kept(sent, <<>>) \o
             [k \in 1 .. Len(types) |->
                send_mavlink_message(
                  [type |-> types[k], time_usec |-> Usec(now)], 0, srcaddr)]
  /\ order' = Kept(order, <<>>) \o <<name>>
  /\ rx' = Kept(rx, <<>>)
  /\ motor_speed' = Kept(motor_speed, <<>>)
  /\ joint_cmd' = Kept(joint_cmd, NoCommand)
  /\ joint_pid' = Kept(joint_pid, NoPid)
  /\ poll_wait' = Kept(poll_wait, 0)
  /\ tick_pos' = Kept(tick_pos, <<>>)
  /\ UNCHANGED <<now, sockq, srcaddr, command, gates, config, pids_,
                 lat_rad, lon_rad>>

\* the body-frame rate: q_br = (0, 1, 0, 0) turns by pi about x
RotateBody(v) == [x |-> v.x, y |-> 0 - v.y, z |-> 0 - v.z]

\* the modulus of uint32_t, scaled from 2^32 to 2^18 so that the timestamp
\* passes a multiple of it within the run (at 262.144 ms)
Uint32Modulus == 262144
ToUint32(x) == x % Uint32Modulus

\* an accumulation whose elapsed time keeps the width of the timestamp
AccumulateGyro_wide(acc, last, time_usec, gyro_b) ==
  LET first == IF last = <<>> THEN ToUint32(time_usec) ELSE last[1]
      dt_us == time_usec - first
  IN IF dt_us > 1000
     THEN [acc |-> [x |-> acc.x + gyro_b.x * dt_us,
                    y |-> acc.y + gyro_b.y * dt_us,
                    z |-> acc.z + gyro_b.z * dt_us],
           last |-> <<ToUint32(time_usec)>>, dt_us |-> dt_us]
     ELSE [acc |-> acc, last |-> <<first>>, dt_us |-> dt_us]

\* the gyro accumulation of ImuCallback: time_usec is the 64-bit timestamp
\* in us, last the static uint32_t last_dt_us (<<>> before its
\* initialisation by the first call), dt_us a uint32_t; the rate is in
\* rad/s scaled so that rate * us needs no division
AccumulateGyro(acc, last, time_usec, gyro_b) ==
  LET first == IF last = <<>> THEN ToUint32(time_usec) ELSE last[1]
      dt_us == ToUint32(time_usec - first)
  IN IF dt_us > 1000
     THEN [acc |-> [x |-> acc.x + gyro_b.x * dt_us,
                    y |-> acc.y + gyro_b.y * dt_us,
                    z |-> acc.z + gyro_b.z * dt_us],
           last |-> <<ToUint32(time_usec)>>, dt_us |-> dt_us]
     ELSE [acc |-> acc, last |-> <<first>>, dt_us |-> dt_us]

\* ---- the pressure altitude of ImuCallback
\* values of a float or double that are not finite numbers
PosInf == 99999
NegInf == 0 - 99999
IsFinite(x) == x \notin {NaN, PosInf, NegInf}
\* the largest finite float; a double holds larger values
FloatMax == 1000
\* the conversion of a double to float
ToFloat(x) ==
  IF ~IsFinite(x) THEN x
  ELSE IF x > FloatMax THEN PosInf
  ELSE IF x < 0 - FloatMax THEN NegInf
  ELSE x
\* the sum of two doubles
AddDouble(a, b) ==
  IF a = NaN \/ b = NaN \/ {a, b} = {PosInf, NegInf} THEN NaN
  ELSE IF PosInf \in {a, b} THEN PosInf
  ELSE IF NegInf \in {a, b} THEN NegInf
  ELSE a + b

\* rand() * (1.0 / RAND_MAX): p1 in units of FLT_EPSILON (P1One is 1.0),
\* p2 in half turns of the cosine
FltEpsilon == 1
P1One == 3
UniformDraws == {[p1 |-> a, p2 |-> b] : a \in 0 .. P1One, b \in {0, 1}}
\* the results of rand() one call of ImuCallback consumes: the do-while
\* loop draws until p1 > FLT_EPSILON
Rejected(d) == d.p1 <= FltEpsilon
DrawRuns ==
  {<<d>> : d \in {u \in UniformDraws : ~Rejected(u)}}
    \cup {<<r, d>> : r \in {u \in UniformDraws : Rejected(u)},
                     d \in {u \in UniformDraws : ~Rejected(u)}}
\* the draw the loop ends with
RECURSIVE LoopDraw(_)
LoopDraw(draws) ==
  IF Len(draws) = 1 \/ ~Rejected(Head(draws)) THEN Head(draws)
  ELSE LoopDraw(Tail(draws))
\* n * sqrtf(0.006f) with n = sqrtf(-2.0 * logf(p1)) * cosf(2 pi p2): the
\* logarithm of 0 is not finite
BoxMuller(d) ==
  LET cos == IF d.p2 = 0 THEN 1 ELSE 0 - 1
  IN IF d.p1 = 0 THEN (IF cos > 0 THEN PosInf ELSE NegInf)
     ELSE cos * (P1One - d.p1)
\* sensor_msg.pressure_alt for the altitude -pos_n.z (a double)
PressureAlt(altitude, draws) ==
  LET alt_n == ToFloat(AddDouble(altitude, BoxMuller(LoopDraw(draws))))
  IN IF IsFinite(alt_n) THEN alt_n ELSE ToFloat(altitude)

\* a draw of no noise
CalmDraw == [p1 |-> P1One, p2 |-> 0]

\* ImuCallback for a body rate, an altitude and the rand() results it gets
ImuCallbackAt(angular_velocity, altitude, draws) ==
  /\ Callback("ImuCallback", <<"HIL_SENSOR", "HIL_STATE_QUATERNION">>)
  /\ LET a == AccumulateGyro(optflow_gyro, last_dt_us, Usec(now),
                             RotateBody(angular_velocity))
     IN /\ optflow_gyro' = a.acc
        /\ last_dt_us' = a.last
        /\ gyro_dt' = <<a.dt_us>>
        /\ last_sample_usec' = IF last_dt_us = <<>> \/ a.dt_us > 1000
                               THEN <<Usec(now)>> ELSE last_sample_usec
  /\ standard_normal_distribution_' = NormalDistribution(0, 1)
  /\ noise_dist' = <<>>
  /\ imu_geo' = <<[lat |-> lat_rad, lon |-> lon_rad]>>
  /\ baro' = <<[alt |-> altitude, draws |-> draws,
                pressure_alt |-> PressureAlt(altitude, draws)]>>
  /\ flow_msg' = <<>>

\* the callback in still air at altitude 0
ImuCallback(angular_velocity) ==
  ImuCallbackAt(angular_velocity, 0, <<CalmDraw>>)

LidarCallback ==
  /\ Callback("LidarCallback", <<"DISTANCE_SENSOR">>)
  /\ imu_geo' = <<>> /\ gyro_dt' = <<>>
  /\ baro' = <<>> /\ noise_dist' = <<>> /\ flow_msg' = <<>>
  /\ UNCHANGED flow

\* a flow message that reports the integral whatever the quality
FlowGyro_anyquality(quality, acc) ==
  [integrated_xgyro |-> 0 - acc.y,
   integrated_ygyro |-> acc.x,
   integrated_zgyro |-> 0 - acc.z,
   quality |-> quality]

\* the gyro fields of the HIL_OPTICAL_FLOW message
FlowGyro(quality, acc) ==
  [integrated_xgyro |-> IF quality # 0 THEN 0 - acc.y ELSE 0,
   integrated_ygyro |-> IF quality # 0 THEN acc.x ELSE 0,
   integrated_zgyro |-> IF quality # 0 THEN 0 - acc.z ELSE 0,
   quality |-> quality]

\* a reset that clears the integral only after a message of quality
ResetGyro_onquality(quality, acc) == IF quality # 0 THEN Zero3 ELSE acc

\* optflow_gyro.Set(): the integral is cleared for every message
ResetGyro(quality, acc) == Zero3

OpticalFlowCallback(quality) ==
  /\ Callback("OpticalFlowCallback", <<"HIL_OPTICAL_FLOW">>)
  /\ flow_msg' = <<FlowGyro(quality, optflow_gyro)>>
  /\ optflow_gyro' = ResetGyro(quality, optflow_gyro)
  /\ imu_geo' = <<>> /\ gyro_dt' = <<>> /\ baro' = <<>> /\ noise_dist' = <<>>
  /\ UNCHANGED <<last_dt_us, last_sample_usec, standard_normal_distribution_>>

SonarCallback ==
  /\ Callback("SonarCallback", <<"DISTANCE_SENSOR">>)
  /\ imu_geo' = <<>> /\ gyro_dt' = <<>>
  /\ baro' = <<>> /\ noise_dist' = <<>> /\ flow_msg' = <<>>
  /\ UNCHANGED flow

IRLockCallback ==
  /\ Callback("IRLockCallback", <<"LANDING_TARGET">>)
  /\ imu_geo' = <<>> /\ gyro_dt' = <<>>
  /\ baro' = <<>> /\ noise_dist' = <<>> /\ flow_msg' = <<>>
  /\ UNCHANGED flow

\* ------------------------------------------------------------- the link
\* datagrams that reach the socket: from the configured peer every frame
\* alone and some pairs of frames, from either host an empty datagram, and
\* from the other host a command
Datagrams ==
  {[src |-> ConfiguredPeer, frames |-> <<f>>] : f \in Frames}
  \cup {[src |-> s, frames |-> <<>>] : s \in Senders}
  \cup {[src |-> Stranger, frames |-> <<ActuatorControls(128, ControlsB)>>]}
  \cup {[src |-> ConfiguredPeer, frames |-> fs] : fs \in
          {<<ActuatorControls(128, ControlsA), ActuatorControls(1, ControlsB)>>,
           <<ActuatorControls(1, ControlsA), ActuatorControls(129, ControlsB)>>,
           <<ActuatorControls(129, ControlsB), Heartbeat>>}}

\* a datagram reaches the socket while fewer than `cap` are pending
Enqueue(d, cap) ==
  /\ fd_state = "bound"
  /\ Len(sockq) < cap
  /\ sockq' = Append(sockq, d)
  /\ order' = Kept(order, <<>>) /\ sent' = Kept(sent, <<>>)
  /\ rx' = Kept(rx, <<>>) /\ motor_speed' = Kept(motor_speed, <<>>)
  /\ joint_cmd' = Kept(joint_cmd, NoCommand)
  /\ joint_pid' = Kept(joint_pid, NoPid)
  /\ poll_wait' = Kept(poll_wait, 0)
  /\ tick_pos' = Kept(tick_pos, <<>>)
  /\ imu_geo' = <<>> /\ gyro_dt' = <<>>
  /\ baro' = <<>> /\ noise_dist' = <<>> /\ flow_msg' = <<>>
  /\ UNCHANGED <<now, srcaddr, command, gates, config, pids_, geo, flow>>

Arrive(d) == Enqueue(d, MaxQueue)

Next ==
  \/ \E step \in TickSteps : OnUpdate(step, StillWorld)
  \/ \E d \in Datagrams : Arrive(d)

\* the tick thread and the link
Spec == Init /\ [][Next]_vars

\* the rate gates: ticks 30 or 50 ms apart, one command on the link
GateSteps == {30, 50}
GateDatagrams ==
  {[src |-> ConfiguredPeer, frames |-> <<ActuatorControls(128, ControlsA)>>]}
NextGate ==
  \/ \E step \in GateSteps : OnUpdate(step, StillWorld)
  \/ \E d \in GateDatagrams : Arrive(d)
SpecGate == Init /\ [][NextGate]_vars

\* the tick thread, the sensor callbacks and datagrams from either host
LinkDatagrams ==
  {[src |-> s, frames |-> fs] :
     s \in Senders, fs \in {<<>>, <<ActuatorControls(128, ControlsA)>>}}
NextLink ==
  \/ \E step \in TickSteps : OnUpdate(step, StillWorld)
  \/ \E d \in LinkDatagrams : Arrive(d)
  \/ ImuCallback(Zero3)
  \/ LidarCallback
  \/ \E quality \in {1} : OpticalFlowCallback(quality)
  \/ SonarCallback
  \/ IRLockCallback
SpecLink == Init /\ [][NextLink]_vars

\* send_mavlink_message called with every destination port, the default 0
\* and an explicit one (no caller in this file passes one)
DestinationPorts == {0, 14556}
SendMessage(destination_port) ==
  /\ sent' = <<send_mavlink_message(
                 [type |-> "HEARTBEAT", time_usec |-> Usec(now)],
                 destination_port, srcaddr)>>
  /\ order' = <<"send_mavlink_message">>
  /\ rx' = <<>> /\ motor_speed' = <<>> /\ joint_cmd' = NoCommand
  /\ joint_pid' = NoPid /\ poll_wait' = 0
  /\ tick_pos' = <<>> /\ imu_geo' = <<>> /\ gyro_dt' = <<>>
  /\ baro' = <<>> /\ noise_dist' = <<>> /\ flow_msg' = <<>>
  /\ UNCHANGED <<now, sockq, srcaddr, command, gates, config, pids_, geo,
                 flow>>
NextSend ==
  \/ \E step \in TickSteps : OnUpdate(step, StillWorld)
  \/ \E d \in LinkDatagrams : Arrive(d)
  \/ \E port \in DestinationPorts : SendMessage(port)
SpecSend == Init /\ [][NextSend]_vars

\* a burst on the link: up to MaxBacklog datagrams wait between two ticks
BurstDatagrams ==
  {[src |-> ConfiguredPeer, frames |-> <<ActuatorControls(128, c)>>] :
     c \in ControlVectors}
ArriveBurst(d) == Enqueue(d, MaxBacklog)
NextDrain ==
  \/ \E step \in TickSteps : OnUpdate(step, StillWorld)
  \/ \E d \in BurstDatagrams : ArriveBurst(d)
SpecDrain == Init /\ [][NextDrain]_vars

\* the optical flow path: ticks, IMU samples with a body rate and optical
\* flow events with and without quality
GyroRates == {[x |-> 1, y |-> 2, z |-> 3], [x |-> 0 - 2, y |-> 1, z |-> 0]}
Qualities == {0, 200}
NextFlow ==
  \/ \E step \in TickSteps : OnUpdate(step, StillWorld)
  \/ \E rate \in GyroRates : ImuCallback(rate)
  \/ \E quality \in Qualities : OpticalFlowCallback(quality)
SpecFlow == Init /\ [][NextFlow]_vars

\* ------------------------------------------------------- configurations
\* a <channel> with values of its own, and two <joint_control_pid> elements
OwnChannel(index, type, joint, pid) ==
  Channel(<<index>>, index + 1, index + 2, 0 - (index + 1), 10 * (index + 1),
          type, joint, pid)
PidWide == PidElement(2, 1, 1, 300, 0 - 300, 200, 0 - 200)
PidNarrow == PidElement(1, 1, 0, 100, 0 - 100, 50, 0 - 50)

\* input_index values beyond the tables, on either side
OutIndices == {0 - 1, 0 - n_out_max, n_out_max, n_out_max + 1}

\* channel 0, then a channel with the index k, then the last channel
SdfOutOfRange(k) ==
  [channels |-> <<OwnChannel(0, <<"velocity">>, <<TRUE>>, <<>>),
                  OwnChannel(k, <<"position">>, <<TRUE>>, <<PidWide>>),
                  OwnChannel(n_out_max - 1, <<"position">>, <<TRUE>>,
                             <<PidNarrow>>)>>,
   named |-> <<>>]
\* a channel without an input_index between two channels that have one
SdfNoIndex ==
  [channels |-> <<OwnChannel(0, <<"velocity">>, <<TRUE>>, <<>>),
                  [OwnChannel(0, <<"position">>, <<TRUE>>, <<>>)
                     EXCEPT !.input_index = <<>>],
                  OwnChannel(n_out_max - 1, <<"position">>, <<TRUE>>, <<>>)>>,
   named |-> <<>>]
\* channel 0 without a control type, and the last channel's joint bound by
\* a named joint element only
SdfNamed ==
  [channels |-> <<OwnChannel(0, <<>>, <<TRUE>>, <<>>)>>,
   named |-> <<NamedJoint("left_elevon_joint", n_out_max - 1, TRUE),
               NamedJoint("propeller_joint", 0 - 1, TRUE)>>]
\* a named joint element whose input_index is beyond the table
SdfNamedBeyond ==
  [channels |-> <<OwnChannel(0, <<"velocity">>, <<TRUE>>, <<>>)>>,
   named |-> <<NamedJoint("elevator_joint", n_out_max, TRUE)>>]
\* channel 0 with a control type handle_control does not know, the last
\* channel in velocity mode, both with a joint and a PID
SdfUnknownType ==
  [channels |-> <<OwnChannel(0, <<"servo">>, <<TRUE>>, <<PidWide>>),
                  OwnChannel(n_out_max - 1, <<"velocity">>, <<TRUE>>,
                             <<PidNarrow>>)>>,
   named |-> <<>>]
\* channel 0 in velocity mode and the last channel in position mode, each
\* with its own PID
SdfPid ==
  [channels |-> <<OwnChannel(0, <<"velocity">>, <<TRUE>>, <<PidWide>>),
                  OwnChannel(n_out_max - 1, <<"position">>, <<TRUE>>,
                             <<PidNarrow>>)>>,
   named |-> <<>>]

\* Load of every configuration with every outcome of the socket set-up,
\* then ticks, commands and a sensor callback
LoadSdfs ==
  {SdfOutOfRange(k) : k \in OutIndices}
    \cup {SdfNoIndex, SdfNamed, SdfNamedBeyond, SdfUnknownType}
NextLoad ==
  \/ \E step \in TickSteps : OnUpdate(step, StillWorld)
  \/ \E d \in GateDatagrams : Arrive(d)
  \/ LidarCallback
SpecLoad == InitWith(LoadSdfs, LoadOutcomes) /\ [][NextLoad]_vars

\* joint control: joints that read above or below their targets
Slips ==
  {[i \in Channels |-> 0], [i \in Channels |-> 3 + i],
   [i \in Channels |-> 0 - (2 + i)]}
PidWorlds == {[pos |-> Origin, slip |-> s] : s \in Slips}
NextPid ==
  \/ \E step \in TickSteps, w \in PidWorlds : OnUpdate(step, w)
  \/ \E d \in GateDatagrams : Arrive(d)
SpecPid == InitWith({SdfUnknownType, SdfPid}, {"bound"}) /\ [][NextPid]_vars

\* the two threads: OnUpdate is called by the world-update event, the
\* sensor callbacks by the transport node the topics are subscribed on, and
\* the file takes no lock, so a callback can run between any two statements
\* of a tick; here between the writes of lat_rad and lon_rad, with the
\* model at the origin or away from it
Positions == {Origin, [x |-> 1, y |-> 2]}
RaceWorlds == {[pos |-> p, slip |-> StillWorld.slip] : p \in Positions}
NextRace ==
  \/ \E step \in TickSteps, w \in RaceWorlds : OnUpdateEnter(step, w)
  \/ OnUpdateLeave
  \/ \E rate \in GyroRates : ImuCallback(rate)
SpecRace == Init /\ [][NextRace]_vars

\* joint control with all gains zero: channel 0 without a
\* <joint_control_pid>, the last channel with one whose limits admit 0
SdfZeroGains ==
  [channels |-> <<OwnChannel(0, <<"velocity">>, <<TRUE>>, <<>>),
                  OwnChannel(n_out_max - 1, <<"position">>, <<TRUE>>,
                             <<PidElement(0, 0, 0, 100, 0 - 100, 50, 0 - 50)>>)>>,
   named |-> <<>>]
\* channel 0 with zero gains and command limits that leave 0 outside
SdfZeroOutside ==
  [channels |-> <<OwnChannel(0, <<"velocity">>, <<TRUE>>,
                             <<PidElement(0, 0, 0, 0, 0, 10, 5)>>),
                  OwnChannel(n_out_max - 1, <<"position">>, <<TRUE>>,
                             <<PidNarrow>>)>>,
   named |-> <<>>]
SpecZero ==
  InitWith({SdfZeroGains, SdfZeroOutside}, {"bound"}) /\ [][NextPid]_vars

\* the projection: Load with the home position of the file or one from the
\* environment, then ticks that find the model at the origin or away from it
Envs ==
  {NoEnv, [lat |-> <<0 - 33>>, lon |-> <<>>], [lat |-> <<>>, lon |-> <<151>>],
   [lat |-> <<0>>, lon |-> <<0>>]}
GeoPositions ==
  {Origin, [x |-> 1, y |-> 2], [x |-> 0 - 3, y |-> 4], [x |-> 5, y |-> 0]}
GeoWorlds == {[pos |-> p, slip |-> StillWorld.slip] : p \in GeoPositions}
InitGeo ==
  /\ Load
  /\ \E env \in Envs : LoadHome(env)
  /\ InitMembers
  /\ InitObserved
NextGeo ==
  \/ \E step \in TickSteps, w \in GeoWorlds : OnUpdate(step, w)
  \/ ImuCallback(Zero3)
SpecGeo == InitGeo /\ [][NextGeo]_vars

\* the barometer: IMU samples at altitudes inside and beyond the range of a
\* float, with every run of rand() results
Altitudes == {0 - 7, FloatMax, FloatMax + 500, 0 - (FloatMax + 500)}
NextBaro ==
  \/ \E step \in TickSteps : OnUpdate(step, StillWorld)
  \/ \E altitude \in Altitudes, draws \in DrawRuns :
       ImuCallbackAt(Zero3, altitude, draws)
SpecBaro == Init /\ [][NextBaro]_vars

\* datagrams that carry several complete frames: pairs of commands with
\* different control values, and commands with a heartbeat before, between or after them; and
\* datagrams of heartbeats alone
BatchFrames == {ActuatorControls(m, c) : m \in {1, 128}, c \in ControlVectors}
BatchDatagrams ==
  {[src |-> ConfiguredPeer, frames |-> fs] : fs \in
     {p \in BatchFrames \X BatchFrames : p[1].controls # p[2].controls}}
    \cup {[src |-> ConfiguredPeer, frames |-> fs] : fs \in
            {<<ActuatorControls(128, ControlsA), Heartbeat,
               ActuatorControls(128, ControlsB)>>,
             <<Heartbeat, ActuatorControls(128, ControlsB),
               ActuatorControls(1, ControlsA)>>,
             <<ActuatorControls(1, ControlsB),
               ActuatorControls(128, ControlsA), Heartbeat>>,
             <<Heartbeat>>, <<Heartbeat, Heartbeat>>}}
NextBatch ==
  \/ \E step \in TickSteps : OnUpdate(step, StillWorld)
  \/ \E d \in BatchDatagrams : Arrive(d)
SpecBatch == Init /\ [][NextBatch]_vars

\* the gyro integral across a multiple of the uint32_t modulus: a world that
\* steps 130 ms at a time and, around 262.144 ms, 1 or 2 ms at a time, and
\* IMU samples of one body rate
WrapSteps(t) == IF t >= 260 /\ t < 264 THEN {1, 2} ELSE {130}
WrapRate == [x |-> 1, y |-> 2, z |-> 3]
NextWrap ==
  \/ \E step \in WrapSteps(now) : OnUpdate(step, StillWorld)
  \/ ImuCallbackAt(WrapRate, 0, <<CalmDraw>>)
SpecWrap == Init /\ [][NextWrap]_vars

\* =================================================================== claims
\* the state right after a tick (OnUpdate); last_time_ is that tick's time
InTick == order # <<>> /\ order[1] = "poll"
Pos(name) == {k \in 1 .. Len(order) : order[k] = name}
Before(a, b) == \A j \in Pos(a), k \in Pos(b) : j < k

\* the command frames the last tick decoded, in order
RxFrames == IF rx = <<>> THEN <<>> ELSE rx[1].frames
RxCommandIdx ==
  {k \in 1 .. Len(RxFrames) : RxFrames[k].msgid = "HIL_ACTUATOR_CONTROLS"}
RxHasCommand == RxCommandIdx # {}
RxLastCommand ==
  RxFrames[CHOOSE k \in RxCommandIdx : \A j \in RxCommandIdx : j <= k]

ArmedFlag(f) == f.mode \in {128, 129}
\* the channels handle_control drives with a target
Driven(i) == joints_[i] /\ joint_cmd[i].op \notin {"none", "gzerr"}
\* the target the claims give channel i after command frame f
ClaimedTarget(f, i) ==
  IF ArmedFlag(f)
  THEN (f.controls[i] + input_offset_[i]) * input_scaling_[i]
         + zero_position_armed_[i]
  ELSE zero_position_disarmed_[i]

\* C1: in every tick the poll-and-decode step comes before handle_control,
\* which comes before the GPS and vision sends of the tick, and a command
\* decoded in the tick is the target handle_control uses in that tick.
C1_DecodeControlSend ==
  InTick =>
    /\ Cardinality(Pos("handle_control")) = 1
    /\ Before("poll", "handle_control")
    /\ Before("recvfrom", "handle_control")
    /\ Before("handle_message", "handle_control")
    /\ Before("handle_control", "send_hil_gps")
    /\ Before("handle_control", "send_vision")
    /\ \A i \in Channels : Driven(i) => joint_cmd[i].target = input_reference_[i]
    /\ RxHasCommand =>
         \A i \in Channels :
           Driven(i) => joint_cmd[i].target = ClaimedTarget(RxLastCommand, i)

\* a tick that decoded a command which changed the target of a driven
\* channel, and that sent a GPS and a vision message
C1_Witness ==
  /\ InTick /\ RxHasCommand
  /\ Pos("send_hil_gps") # {} /\ Pos("send_vision") # {}
  /\ \E i \in Channels : Driven(i) /\ joint_cmd[i].target \notin {0, zero_position_disarmed_[i]}

\* C2: after a command whose mode has no safety-armed flag is decoded, every
\* channel's target is its disarmed value, whatever the raw control values
\* and the state before.
C2_DisarmedTargets ==
  /\ (InTick /\ RxHasCommand /\ ~ArmedFlag(RxLastCommand)) =>
       \A i \in Channels : input_reference_[i] = zero_position_disarmed_[i]
  /\ \A f \in CommandFrames :
       ~ArmedFlag(f) =>
         handle_message(f, [ref |-> input_reference_, last |-> last_actuator_time_,
                            first |-> received_first_referenc_], now).ref
           = zero_position_disarmed_

\* a disarmed command with non-zero raw values was decoded over armed targets
C2_Witness ==
  /\ InTick /\ RxHasCommand /\ ~ArmedFlag(RxLastCommand)
  /\ Len(RxFrames) = 2 /\ ArmedFlag(RxFrames[1])
  /\ \E i \in Channels : RxLastCommand.controls[i] # 0
  /\ \E i \in Channels : zero_position_disarmed_[i] # 0

\* C3: after an armed command is decoded, every channel's target is
\* (raw_control[i] + offset[i]) * scale[i] + armed_zero[i], with the raw
\* control value of that same message.
C3_ArmedTargets ==
  /\ (InTick /\ RxHasCommand /\ ArmedFlag(RxLastCommand)) =>
       \A i \in Channels :
         input_reference_[i] =
           (RxLastCommand.controls[i] + input_offset_[i]) * input_scaling_[i]
             + zero_position_armed_[i]
  /\ \A f \in CommandFrames :
       ArmedFlag(f) =>
         \A i \in Channels :
           handle_message(f, [ref |-> input_reference_, last |-> last_actuator_time_,
                              first |-> received_first_referenc_], now).ref[i]
             = (f.controls[i] + input_offset_[i]) * input_scaling_[i]
                 + zero_position_armed_[i]

\* an armed command decoded after another armed command with other values
C3_Witness ==
  /\ InTick /\ RxHasCommand /\ ArmedFlag(RxLastCommand)
  /\ RxLastCommand.controls = ControlsB
  /\ \E i \in Channels : input_offset_[i] # 0 /\ input_scaling_[i] # 1
  /\ \E i \in Channels : input_reference_[i] = 29


\* C4: in a tick after a command was decoded, when more than 0.2 s of
\* simulation time have passed since the last decoded command, every entry
\* of the motor-speed message published in that tick is 0.
C4_StaleMotorSpeedZero ==
  (InTick /\ received_first_referenc_
     /\ last_time_ - last_actuator_time_ > 200) =>
    /\ Len(motor_speed) = 1
    /\ \A i \in Channels : motor_speed[1][i] = 0

\* a stale tick whose last command left non-zero targets
C4_Witness ==
  /\ InTick /\ received_first_referenc_
  /\ last_actuator_time_ > 0
  /\ last_time_ - last_actuator_time_ > 200
  /\ \A i \in Channels : input_reference_[i] # 0

\* C5: staleness never alters joint control: every tick drives each joint
\* with the target of the most recently decoded command, however old, and a
\* tick that decodes no command leaves the targets unchanged.
C5_StaleTargetsKept ==
  [][InTick' =>
       /\ \A i \in Channels :
            Driven(i)' => joint_cmd'[i].target = input_reference_'[i]
       /\ ~RxHasCommand' => input_reference_' = input_reference_]_vars

\* a tick more than 0.2 s after the last command that drives a joint with
\* that command's non-zero target
C5_Witness ==
  /\ InTick /\ received_first_referenc_ /\ ~RxHasCommand
  /\ last_time_ - last_actuator_time_ > 200
  /\ \E i \in Channels : Driven(i) /\ joint_cmd[i].target # 0
                          /\ joint_cmd[i].target = input_reference_[i]

\* C6: the command state machine starts Unarmed, becomes commanded exactly
\* when the first actuator-command message is decoded and never goes back; a
\* tick publishes a motor-speed message iff the machine is commanded.
C6_CommandStateMachine ==
  /\ ~received_first_referenc_
  /\ [][/\ received_first_referenc_' =
             (received_first_referenc_ \/ (InTick' /\ RxHasCommand'))
        /\ InTick' => ((motor_speed' # <<>>) = received_first_referenc_')]_vars

\* a tick in the commanded state that decoded nothing and published
C6_Witness ==
  /\ InTick /\ received_first_referenc_ /\ rx = <<>>
  /\ motor_speed # <<>>


\* the HIL_GPS messages the last handler sent
GpsSent == {k \in 1 .. Len(sent) : sent[k].msg.type = "HIL_GPS"}

\* C7: a GPS message is sent in a tick only if the simulation time minus
\* the last GPS emission time is more than 0.2 s, and the send sets the last
\* emission time to the current time; so none is sent before 0.08 s into a
\* period and consecutive GPS messages are more than 0.2 s apart.
C7_GpsRateGate ==
  [][InTick' =>
       /\ Cardinality(GpsSent') <= 1
       /\ GpsSent' # {} =>
            /\ last_time_' - last_gps_time_ > 200
            /\ last_time_' - last_gps_time_ >= 80
            /\ last_gps_time_' = last_time_'
       /\ GpsSent' = {} => last_gps_time_' = last_gps_time_]_vars

\* the second GPS message of a run
C7_Witness ==
  /\ InTick /\ GpsSent # {}
  /\ last_gps_time_ = last_time_ /\ last_time_ > 400

\* C8: the GPS message an emit pass sends is the one an earlier
\* pre-computation pass filled, so the fix is older than the emit tick.
C8_GpsFixOlderThanEmit ==
  InTick => \A k \in GpsSent : sent[k].msg.time_usec < Usec(last_time_)

\* C9: send transmits to the given port on the peer address when
\* destination_port is not 0, and to the peer's port when it is 0.
C9_SendDestinationPort ==
  \A k \in 1 .. Len(sent) :
    sent[k].to = IF sent[k].destination_port # 0
                 THEN [addr |-> srcaddr.addr, port |-> sent[k].destination_port]
                 ELSE srcaddr

\* C10 as stated: every outbound message goes to the peer address and port
\* configured at initialization, whatever was received.
C10_SentToConfiguredPeer ==
  \A k \in 1 .. Len(sent) : sent[k].to = ConfiguredPeer

\* C10, amended: every outbound message goes to the address and port held
\* in _srcaddr, which is the configured peer until a tick reads a datagram
\* and from then on the sender of the datagram read last.
C10_SentToLastSender ==
  /\ srcaddr = ConfiguredPeer
  /\ [][/\ \A k \in 1 .. Len(sent') : sent'[k].to = srcaddr'
        /\ srcaddr' = IF InTick' /\ rx' # <<>> THEN rx'[1].src ELSE srcaddr]_vars

\* a sensor callback sends its messages to the other host
C10_Witness ==
  /\ order = <<"ImuCallback">> /\ Len(sent) = 2
  /\ sent[1].to = Stranger /\ sent[2].to = Stranger

\* C11: each tick drains the socket: after a tick's poll-and-decode step no
\* datagram that was pending when the tick started is still unread, so right
\* after a tick the receive queue is empty.
C11_TickDrainsSocket == InTick => sockq = <<>>

\* C12: a tick never waits for the peer: its readiness check waits 0 ms
\* although OnUpdate asks for 1000, recvfrom is called only when a datagram
\* was pending, the decode loop dispatches no more frames than the datagram
\* holds, and a tick can run while nothing is pending.
C12_TickNeverWaits ==
  /\ InTick =>
       /\ poll_wait = 0
       /\ (Pos("recvfrom") # {} => rx # <<>>)
       /\ Cardinality(Pos("recvfrom")) <= 1
       /\ Cardinality(Pos("handle_message")) <= Len(RxFrames)
  /\ \A step \in TickSteps :
       (sockq = <<>> /\ now + step <= MaxTime)
         => ENABLED OnUpdate(step, StillWorld)
C12_Witness ==
  /\ InTick /\ rx = <<>> /\ Pos("recvfrom") = {}
  /\ received_first_referenc_ /\ last_time_ > 0

\* the last handler was OpticalFlowCallback
AfterFlow == flow_msg # <<>>

\* C13: right after every optical flow message, of any quality, the gyro
\* integral is zero; the integral changes only when OpticalFlowCallback
\* clears it or ImuCallback adds rate * dt to it, so a message reports what
\* the IMU callbacks added since the message before.
C13_FlowIntegralCleared ==
  /\ [](AfterFlow => optflow_gyro = Zero3)
  /\ [][\/ optflow_gyro' = optflow_gyro
        \/ AfterFlow' /\ optflow_gyro' = Zero3
        \/ /\ imu_geo' # <<>>
           /\ last_dt_us # <<>>
           /\ \E rate \in GyroRates :
                LET g == RotateBody(rate)
                    dt_us == ToUint32(Usec(now) - last_dt_us[1])
                IN optflow_gyro' = [x |-> optflow_gyro.x + g.x * dt_us,
                                    y |-> optflow_gyro.y + g.y * dt_us,
                                    z |-> optflow_gyro.z + g.z * dt_us]]_vars
C13_Witness ==
  /\ AfterFlow /\ flow_msg[1].quality = 0 /\ optflow_gyro = Zero3
  /\ last_dt_us # <<>> /\ last_dt_us[1] > 0

\* C14: an optical flow message of quality 0 carries three zero gyro
\* fields; one of another quality carries (-y, x, -z) of the integral as it
\* was when the callback started.
C14_FlowGyroFields ==
  [][AfterFlow' =>
       LET m == flow_msg'[1]
           acc == optflow_gyro
       IN /\ m.quality = 0 =>
               /\ m.integrated_xgyro = 0
               /\ m.integrated_ygyro = 0
               /\ m.integrated_zgyro = 0
          /\ m.quality # 0 =>
               /\ m.integrated_xgyro = 0 - acc.y
               /\ m.integrated_ygyro = acc.x
               /\ m.integrated_zgyro = 0 - acc.z]_vars
C14_Witness ==
  /\ AfterFlow /\ flow_msg[1].quality # 0
  /\ flow_msg[1].integrated_xgyro # 0 /\ flow_msg[1].integrated_ygyro # 0
  /\ optflow_gyro = Zero3

\* the <channel> elements Load parses: those before the first one without
\* an input_index
RECURSIVE ParsedChannels(_)
ParsedChannels(channels) ==
  IF channels = <<>> \/ Head(channels).input_index = <<>> THEN <<>>
  ELSE <<Head(channels)>> \o ParsedChannels(Tail(channels))
InsideTables(e) == e.input_index[1] \in Channels
\* the document with the channels outside the tables removed
WithoutOutside(sdf) ==
  [sdf EXCEPT !.channels = SelectSeq(ParsedChannels(sdf.channels),
                                      InsideTables)]
TablesOf(sdf) ==
  ParseNamed(sdf.named, ParseChannels(sdf.channels, DefaultTables))
OutsideParsed ==
  {k \in 1 .. Len(ParsedChannels(load_log.sdf.channels)) :
     ~InsideTables(ParsedChannels(load_log.sdf.channels)[k])}

RecognizedTypes ==
  {"velocity", "position", "position_gztopic", "position_kinematic"}
\* channel i has a joint and a control type handle_control does not know
UnknownType(i) == joints_[i] /\ joint_control_type_[i] \notin RecognizedTypes
ExpectedOp(type) ==
  CASE type = "velocity" -> "SetForce(velocity)"
    [] type = "position" -> "SetForce(position)"
    [] type = "position_gztopic" -> "Publish"
    [] type = "position_kinematic" -> "SetPosition"

\* C16: in every tick handle_control reports a channel that has a joint and
\* an unknown control type and does nothing else for it (no force, no
\* position, no publication); the channel's PID never changes; the other
\* channels with a joint are driven to their targets in the same tick.
C16_UnknownTypeInert ==
  /\ [](InTick =>
          \A i \in Channels :
            /\ UnknownType(i) =>
                 joint_cmd[i].op = "gzerr" /\ joint_pid[i].op = "none"
            /\ (joints_[i] /\ ~UnknownType(i)) =>
                 /\ joint_cmd[i].op = ExpectedOp(joint_control_type_[i])
                 /\ joint_cmd[i].target = input_reference_[i]
                 /\ joint_control_type_[i] \in {"velocity", "position"}
                      => joint_pid[i].op = "Update")
  /\ [][\A i \in Channels : UnknownType(i) => pids_'[i] = pids_[i]]_vars
C16_Witness ==
  /\ InTick
  /\ \E i, j \in Channels :
       /\ UnknownType(i) /\ joint_cmd[i].op = "gzerr"
       /\ pids_[i].pGain # 0
       /\ joint_pid[j].op = "Update" /\ joint_pid[j].err # 0
       /\ joint_pid[j].force # 0 /\ joint_cmd[j].target # 0

\* the document gives channel i a joint_control_type
TypeSpecified(i) ==
  \E k \in 1 .. Len(ParsedChannels(load_log.sdf.channels)) :
    LET e == ParsedChannels(load_log.sdf.channels)[k]
    IN e.input_index = <<i>> /\ e.joint_control_type # <<>>

\* C17: after Load every channel the document gave no control type is in
\* velocity mode, and when it has a joint, however it was bound,
\* handle_control drives that joint as a velocity channel.
C17_DefaultModeVelocity ==
  Connected =>
    \A i \in Channels :
      ~TypeSpecified(i) =>
        /\ joint_control_type_[i] = "velocity"
        /\ (InTick /\ joints_[i]) => joint_cmd[i].op = "SetForce(velocity)"

SocketFailed == fd_state \in {"socket_failed", "bind_failed"}

\* C18: when socket() or bind() failed in Load the bridge is dead: no tick
\* polls, runs joint control or sends, and no sensor callback sends, so no
\* handler ever records a step or hands a datagram to sendto.
C18_SocketFailureIsFatal == SocketFailed => (order = <<>> /\ sent = <<>>)

\* C19: no sensor callback runs inside a tick, and the latitude/longitude
\* pair a callback reports is the projection of one position of the model,
\* never the latitude of one tick with the longitude of another.
C19_CallbackSeesWholeTick ==
  imu_geo # <<>> =>
    /\ tick_local = <<>>
    /\ \E p \in Positions : imu_geo[1] = Project(p)

\* channel i has a joint and runs on its PID
PidChannel(i) ==
  joints_[i] /\ joint_control_type_[i] \in {"velocity", "position"}
\* the <joint_control_pid> the document gives channel i (the last one)
ConfiguredPid(i) ==
  LET parsed == ParsedChannels(load_log.sdf.channels)
      ks == {k \in 1 .. Len(parsed) :
               parsed[k].input_index = <<i>>
                 /\ parsed[k].joint_control_pid # <<>>}
  IN IF ks = {} THEN PidElement(0, 0, 0, 0, 0, 0, 0)
     ELSE parsed[CHOOSE k \in ks : \A j \in ks : j <= k].joint_control_pid[1]

ZeroGains(i) ==
  ConfiguredPid(i).p = 0 /\ ConfiguredPid(i).i = 0 /\ ConfiguredPid(i).d = 0
\* the limits configured for channel i admit a zero term and a zero command
LimitsAdmitZero(i) ==
  /\ ConfiguredPid(i).iMin <= 0 /\ 0 <= ConfiguredPid(i).iMax
  /\ ConfiguredPid(i).cmdMin <= 0 /\ 0 <= ConfiguredPid(i).cmdMax

AngularDistance(pos) == ISqrt(pos.y * pos.y + pos.x * pos.x)

\* C22: after every tick the latitude and longitude are the home position
\* itself when the model's north and east displacement are both zero
\* (c = 0), whatever the home position is, and otherwise the values of the
\* inverse great-circle formulas for the displacement and that home
\* position; they are numbers in both cases.
C22_ProjectionAtHome ==
  (InTick /\ tick_local = <<>>) =>
    LET pos == tick_pos[1]
    IN /\ (pos.x = 0 /\ pos.y = 0) <=> AngularDistance(pos) = 0
       /\ AngularDistance(pos) = 0 =>
            lat_rad = lat_home /\ lon_rad = lon_home
       /\ AngularDistance(pos) # 0 =>
            /\ lat_rad = GreatCircleLat(pos.y, AngularDistance(pos))
            /\ lon_rad = GreatCircleLon(pos.x, AngularDistance(pos))
       /\ lat_rad # NaN /\ lon_rad # NaN
C22_Witness ==
  /\ InTick /\ tick_local = <<>>
  /\ tick_pos = <<Origin>>
  /\ lat_home # Home.lat /\ lon_home # Home.lon
  /\ lat_rad = lat_home /\ lon_rad = lon_home
  /\ now > 200

\* C23: the pressure altitude of every HIL_SENSOR message is a finite number
\* whenever the altitude the callback read is one; the noise is that of the
\* first draw whose p1 is above FLT_EPSILON.
C23_PressureAltFinite ==
  (baro # <<>> /\ IsFinite(baro[1].alt)) =>
    /\ IsFinite(baro[1].pressure_alt)
    /\ ~Rejected(LoopDraw(baro[1].draws))

EvSent ==
  {k \in 1 .. Len(sent) : sent[k].msg.type = "VISION_POSITION_ESTIMATE"}

\* C24: a tick sends a vision-position message if and only if the
\* simulation time minus the last vision emission time is more than 0.05 s,
\* and the send sets the last emission time to the current time; so a tick
\* sends at most one, consecutive ones are more than 0.05 s apart, and a
\* tick in which one is due sends it.
C24_VisionRateGate ==
  [][InTick' =>
       /\ Cardinality(EvSent') <= 1
       /\ EvSent' # {} <=> last_time_' - last_ev_time_ > 50
       /\ EvSent' # {} =>
            /\ last_ev_time_' = last_time_'
            /\ \A k \in EvSent' : sent'[k].msg.time_usec = Usec(last_time_')
       /\ EvSent' = {} => last_ev_time_' = last_ev_time_]_vars

\* a later vision message of a run, sent 60 ms after the one before
C24_Witness ==
  /\ InTick /\ EvSent # {}
  /\ last_ev_time_ = last_time_ /\ last_time_ = 120

\* C25: every evaluation of the GPS or vision noise model, after any ticks
\* and sensor callbacks, draws its samples from the normal distribution of
\* mean 0 and standard deviation 1.
C25_NoiseStandardNormal ==
  \A k \in 1 .. Len(noise_dist) : noise_dist[k].dist = StandardNormal

\* C26: in every tick in which a command has been decoded and the last one
\* was decoded at most 0.2 s of simulation time ago, the motor-speed message
\* published carries the current target of every channel, also when that
\* command was decoded at simulation time 0.
C26_FreshMotorSpeedIsTarget ==
  (InTick /\ received_first_referenc_
     /\ last_time_ - last_actuator_time_ <= 200) =>
    /\ Len(motor_speed) = 1
    /\ \A i \in Channels : motor_speed[1][i] = input_reference_[i]

\* C27: when a tick decodes several actuator-command frames from one
\* datagram, every frame is dispatched, in the order of arrival, and after
\* the tick the targets of all channels, the first-command flag and the
\* last-command time are those the last command frame gives on its own; no
\* channel keeps the value of an earlier frame.
C27_LastFrameWins ==
  (InTick /\ Cardinality(RxCommandIdx) >= 2) =>
    /\ Cardinality(Pos("handle_message")) = Len(RxFrames)
    /\ \A i \in Channels :
         input_reference_[i] = ClaimedTarget(RxLastCommand, i)
    /\ \A cs \in {[ref |-> r, last |-> 0, first |-> FALSE] :
                    r \in {ControlsA, ControlsB}} :
         handle_message(RxLastCommand, cs, last_time_)
           = [ref |-> input_reference_, last |-> last_actuator_time_,
              first |-> received_first_referenc_]
    /\ last_actuator_time_ = last_time_
    /\ received_first_referenc_

\* a tick that decoded two armed commands and a heartbeat, the first
\* command's targets differing from the last one's in every channel
C27_Witness ==
  /\ InTick /\ Cardinality(RxCommandIdx) = 2 /\ Len(RxFrames) = 3
  /\ last_time_ > 0
  /\ \A i \in Channels :
       /\ input_reference_[i] = ClaimedTarget(RxLastCommand, i)
       /\ input_reference_[i]
            # ClaimedTarget(RxFrames[CHOOSE k \in RxCommandIdx :
                                       \A j \in RxCommandIdx : k <= j], i)

\* the frames of a sequence that are actuator-control commands
IsCommand(f) == f.msgid = "HIL_ACTUATOR_CONTROLS"
CommandsOf(frames) == SelectSeq(frames, IsCommand)

\* C28: a decoded frame that is not an actuator-control command leaves the
\* command state as it is: a tick that decodes only such frames changes
\* neither the targets nor the last-command time nor the first-command
\* flag, and a tick that decodes them next to commands ends in the state
\* the commands alone give.
C28_OtherFramesIgnored ==
  [][(InTick' /\ rx' # <<>>) =>
       /\ ~RxHasCommand' => UNCHANGED command
       /\ [ref |-> input_reference_', last |-> last_actuator_time_',
           first |-> received_first_referenc_']
            = DecodeFrames(CommandsOf(RxFrames'),
                           [ref |-> input_reference_,
                            last |-> last_actuator_time_,
                            first |-> received_first_referenc_],
                           last_time_')]_vars

\* a tick that decoded two heartbeats and nothing else, later than the
\* last command, whose targets are not 0
C28_Witness ==
  /\ InTick /\ Len(RxFrames) = 2 /\ ~RxHasCommand
  /\ received_first_referenc_
  /\ last_actuator_time_ > 0 /\ last_actuator_time_ < last_time_
  /\ \A i \in Channels : input_reference_[i] # 0

\* C29: every tick runs handle_control once, whether or not a datagram was
\* read; in a tick before the first command is decoded every channel with a
\* bound joint is handled with the target 0 that Load gave it, not with its
\* disarmed value (a channel whose control mode handle_control knows is
\* driven toward 0, any other is reported and left alone), and no
\* motor-speed message is published.
C29_UnarmedTargetZero ==
  InTick =>
    /\ Cardinality(Pos("handle_control")) = 1
    /\ ~received_first_referenc_ =>
         /\ motor_speed = <<>>
         /\ Pos("publish_motor_speed") = {}
         /\ \A i \in Channels :
              /\ input_reference_[i] = 0
              /\ joints_[i] => joint_cmd[i] = JointCommand(i, 0)
              /\ (joints_[i] /\ joint_control_type_[i] \in RecognizedTypes)
                   => Driven(i) /\ joint_cmd[i].target = 0
              /\ ~joints_[i] => joint_cmd[i].op = "none"

\* a tick before the first command that read a datagram without a command
\* and drove a joint whose disarmed value is not 0
C29_Witness ==
  /\ InTick /\ ~received_first_referenc_
  /\ rx # <<>> /\ last_time_ > 0
  /\ \E i \in Channels :
       /\ Driven(i) /\ joint_cmd[i].target = 0
       /\ zero_position_disarmed_[i] # 0

\* the elapsed us between the sample last_dt_us was taken from and now
TrueElapsed ==
  IF last_sample_usec = <<>> THEN 0 ELSE Usec(now) - last_sample_usec[1]
\* the integral after adding the body rate of `rate` over dt_us
Added(acc, rate, dt_us) ==
  [x |-> acc.x + RotateBody(rate).x * dt_us,
   y |-> acc.y + RotateBody(rate).y * dt_us,
   z |-> acc.z + RotateBody(rate).z * dt_us]

\* C30: ImuCallback adds its sample, scaled by the elapsed time, to the
\* gyro integral if and only if the elapsed us since the sample it last
\* added (or, before any was added, the first sample) are more than 1000;
\* the elapsed value, computed in uint32_t from the 64-bit timestamp and
\* the stored uint32_t, is the true elapsed time whenever that is below the
\* modulus, also when the timestamp has passed a multiple of the modulus
\* in between.
C30_GyroElapsedGate ==
  [][gyro_dt' # <<>> =>
       LET dt_us == gyro_dt'[1]
       IN /\ dt_us = ToUint32(TrueElapsed)
          /\ TrueElapsed < Uint32Modulus => dt_us = TrueElapsed
          /\ dt_us > 1000 =>
               /\ optflow_gyro' = Added(optflow_gyro, WrapRate, dt_us)
               /\ optflow_gyro' # optflow_gyro
               /\ last_sample_usec' = <<Usec(now)>>
          /\ dt_us <= 1000 =>
               /\ optflow_gyro' = optflow_gyro
               /\ last_sample_usec # <<>> => UNCHANGED last_sample_usec
          /\ last_dt_us' = <<ToUint32(last_sample_usec'[1])>>]_vars

\* a sample 2 ms after the last one that was added, the timestamp having
\* passed the modulus in between and a sample 1 ms before not having been
\* added
C30_Witness ==
  /\ gyro_dt = <<2000>>
  /\ last_sample_usec = <<Usec(now)>>
  /\ Usec(now) > Uint32Modulus
  /\ Usec(now) - 2000 < Uint32Modulus
  /\ last_dt_us[1] < 2000
  /\ optflow_gyro # Zero3
====
